---- MODULE Spec2Model ----
(***************************************************************************)
(* Model of mortgage_spread_analysis.py: the three download functions, the *)
(* weekly aligner, the spread calculator, the regression entry point and   *)
(* the control flow of main().                                             *)
(*                                                                         *)
(* Dates are day numbers counted from HISTORY START (2000-01-01 = day 0).  *)
(* Rates are integers in hundredths of a percentage point (6.50 % = 650),  *)
(* so that every quantity of the Python code is 1/100 of its model value.  *)
(* A missing value (NaN) is the empty tuple, a number v is the tuple <<v>>.*)
(***************************************************************************)
EXTENDS Integers, Sequences, FiniteSets, TLC

\* ------------------------------------------------------------------ bounds
\* Last day number of the rich input series (days 0..MaxDay).
MaxDay == 12
\* Largest number of observations the two rich input series hold together.
MaxObs == 3
\* The chart inputs hold dates at most this many days from the first or last
\* day of a stress period.
ChartMargin == 3
\* Largest x value of the regression inputs (x in 0..MaxX, y in 0..2*MaxX+1).
MaxX == 2

\* ------------------------------------------------------- program constants
\* "2000-01-01" is a Saturday: pandas weekday 5 (Monday = 0).
StartWeekday == 5
\* "W-WED": weeks end on Wednesday, pandas weekday 2.
WED == 2
\* pmms["PMMS_30Y"] - 0.50, in hundredths of a percentage point.
PROXY_OFFSET == 50
\* (merged[col1] - merged[col2]) * 100
BP_SCALE == 100

Days == 0..MaxDay
\* The rates the data source can report.
Rates == {625, 700}
NaN == <<>>
Cells == {NaN} \cup {<<v>> : v \in Rates}

\* The days on which the data source of main() reports observations:
\* a Tuesday and the Thursday after it (two different Wednesday weeks).
SourceDays == {3, 5}

None == [tag |-> "None"]
Unbound == [tag |-> "unbound"]

Max(S) == CHOOSE x \in S : \A y \in S : y <= x
Min(S) == CHOOSE x \in S : \A y \in S : x <= y

\* ------------------------------------------------------------- data frames
\* A DataFrame: its column names, and one row (column name -> cell) per
\* index date. The index is a set of dates: unique and ordered by date.
IsFrame(x) == x.tag = "df"
Index(df) == DOMAIN df.rows
NumRows(df) == Cardinality(Index(df))
ColSet(df) == {df.cols[i] : i \in 1..Len(df.cols)}

\* What web.DataReader(series, "fred", start, end) returns for the
\* observations obs (date -> cell): one column, named after the series.
ReaderFrame(series, obs) ==
    [tag |-> "df", cols |-> <<series>>,
     rows |-> [d \in DOMAIN obs |-> (series :> obs[d])]]

\* df.columns = names (the frames of this program have one column there).
SetColumns(df, names) ==
    [tag |-> "df", cols |-> names,
     rows |-> [d \in Index(df) |->
                [c \in {names[i] : i \in 1..Len(names)} |->
                   df.rows[d][df.cols[CHOOSE i \in 1..Len(names) : names[i] = c]]]]]

\* All observation series over the dates D.
SeriesOn(D) == UNION {[S -> Cells] : S \in SUBSET D}
\* The rate the rich input series of a data-source series reports on day d
\* (distinct on distinct days, so that the day a value came from shows).
Quote(series, d) == IF series = "MORTGAGE30US" THEN 700 + d ELSE 400 + 2 * d
\* All observation series of a data-source series over Days with at most n
\* observations, any of them missing (NaN).
RECURSIVE DateSetsUpTo(_)
DateSetsUpTo(n) ==
    IF n = 0 THEN {{}}
    ELSE LET smaller == DateSetsUpTo(n - 1)
         IN  smaller \cup {S \cup {d} : S \in smaller, d \in Days}
SeriesUpTo(series, n) ==
    UNION {{[d \in S |-> IF d \in V THEN <<Quote(series, d)>> ELSE NaN] :
              V \in SUBSET S} :
           S \in DateSetsUpTo(n)}

\* --------------------------------------------------------- weekly aligner
Weekday(d) == (StartWeekday + d) % 7
\* The label of the "W-WED" bin of date d: the first Wednesday on or after d.
WeekLabel(d) == d + ((WED - Weekday(d)) % 7)

\* Mutant of LastValid: GroupBy.first() in place of GroupBy.last().
FirstValid(df, ds, c) ==
    LET valid == {d \in ds : df.rows[d][c] # NaN}
    IN  IF valid = {} THEN NaN ELSE df.rows[Min(valid)][c]

\* GroupBy.last(): the last non-missing cell of column c among the dates ds.
LastValid(df, ds, c) ==
    LET valid == {d \in ds : df.rows[d][c] # NaN}
    IN  IF valid = {} THEN NaN ELSE df.rows[Max(valid)][c]

\* df.resample("W-WED").last(): one bin per week from the week of the first
\* date to the week of the last date, empty bins included (all NaN).
ResampleLast(df) ==
    LET idx == Index(df)
        labels == IF idx = {} THEN {}
                  ELSE {w \in WeekLabel(Min(idx))..WeekLabel(Max(idx)) :
                          Weekday(w) = WED}
    IN  [tag |-> "df", cols |-> df.cols,
         rows |-> [w \in labels |->
                    [c \in ColSet(df) |->
                       LastValid(df, {d \in idx : WeekLabel(d) = w}, c)]]]

\* Mutant of DropNa: df.ffill() in place of df.dropna(), an empty week
\* taking the value of the week before it.
FillForward(df) ==
    [tag |-> "df", cols |-> df.cols,
     rows |-> [w \in Index(df) |->
                [c \in ColSet(df) |->
                   LastValid(df, {d \in Index(df) : d <= w}, c)]]]

\* df.dropna(): drops every row holding a NaN in any column.
DropNa(df) ==
    LET keep == {d \in Index(df) : \A c \in ColSet(df) : df.rows[d][c] # NaN}
    IN  [tag |-> "df", cols |-> df.cols, rows |-> [d \in keep |-> df.rows[d]]]

align_to_weekly_wednesday(df, column_name) == DropNa(ResampleLast(df))

\* ------------------------------------------------------ spread calculator
\* Float subtraction and scaling: NaN propagates.
Sub(a, b) == IF a = NaN \/ b = NaN THEN NaN ELSE <<a[1] - b[1]>>
Scale(a, k) == IF a = NaN THEN NaN ELSE <<a[1] * k>>

\* Mutant of MergeInner: how="left", the rows of df1 without a partner
\* in df2 kept with a missing value.
MergeLeft(df1, df2, col1, col2) ==
    [tag |-> "df", cols |-> <<col1, col2>>,
     rows |-> [d \in Index(df1) |->
                (col1 :> df1.rows[d][col1]) @@
                (col2 :> IF d \in Index(df2) THEN df2.rows[d][col2] ELSE NaN)]]

\* pd.merge(df1[[col1]], df2[[col2]], left_index, right_index, how="inner")
MergeInner(df1, df2, col1, col2) ==
    [tag |-> "df", cols |-> <<col1, col2>>,
     rows |-> [d \in Index(df1) \cap Index(df2) |->
                (col1 :> df1.rows[d][col1]) @@ (col2 :> df2.rows[d][col2])]]

\* Mutant of calculate_spread: the difference left in percentage points.
spread_unscaled(df1, df2, col1, col2, spread_name) ==
    LET merged == MergeInner(df1, df2, col1, col2)
    IN  [tag |-> "df", cols |-> <<col1, col2, spread_name>>,
         rows |-> [d \in Index(merged) |->
                    merged.rows[d] @@
                    (spread_name :>
                       Sub(merged.rows[d][col1], merged.rows[d][col2]))]]

calculate_spread(df1, df2, col1, col2, spread_name) ==
    LET merged == MergeInner(df1, df2, col1, col2)
    IN  [tag |-> "df", cols |-> <<col1, col2, spread_name>>,
         rows |-> [d \in Index(merged) |->
                    merged.rows[d] @@
                    (spread_name :>
                       Scale(Sub(merged.rows[d][col1], merged.rows[d][col2]),
                             BP_SCALE))]]

\* ------------------------------------------------------------ the program
VARIABLES
    HAS_DATAREADER,     \* pandas_datareader was imported
    HAS_SKLEARN,        \* scikit-learn was imported
    pc,                 \* the statement of main() that runs next
    cand,               \* loop index into possible_series (1-based)
    pmms_data, treasury_data, cc30_data,
    pmms_weekly, treasury_weekly, cc30_weekly,
    spread_df, pss30_df,
    regression_results,
    files,              \* the working directory: file name -> content
    requests,           \* the requests sent to the data source, in order
    exc                 \* the uncaught exception that ended main(), if any

vars == <<HAS_DATAREADER, HAS_SKLEARN, pc, cand, pmms_data, treasury_data,
          cc30_data, pmms_weekly, treasury_weekly, cc30_weekly, spread_df,
          pss30_df, regression_results, files, requests, exc>>

locals == <<pmms_data, treasury_data, cc30_data, pmms_weekly,
            treasury_weekly, cc30_weekly, spread_df, pss30_df,
            regression_results>>

\* Mutant of possible_series: the first candidate listed twice.
possible_series_repeated == <<"OBMMIFHA30YF", "OBMMIFHA30YF">>

possible_series == <<"OBMMIFHA30YF", "OBMMIC30YF">>

FileNames == {"pmms_treasury_spread.csv", "pmms_treasury_spread_chart.png",
              "rates_comparison.png", "primary_secondary_spread.csv",
              "primary_secondary_spread_chart.png", "regression_analysis.png"}
NoFile == [tag |-> "absent"]
Png == [tag |-> "png"]

\* ---------------------------------------------------------------- charts
\* recessions of plot_spread_history, as day numbers: 2001-03-01..2001-11-01,
\* 2007-12-01..2009-06-01 and 2020-02-01..2020-04-01.
recessions == << <<425, 670>>, <<2891, 3439>>, <<7336, 7396>> >>

\* Mutant of recession_spans: every period drawn over the part of it that
\* lies inside the date range of the data.
recession_spans_clipped(df) ==
    IF Index(df) = {} THEN {}
    ELSE LET lo == Min(Index(df))
             hi == Max(Index(df))
         IN  {<<IF recessions[i][1] >= lo THEN recessions[i][1] ELSE lo,
                IF recessions[i][2] <= hi THEN recessions[i][2] ELSE hi>> :
                i \in {j \in 1..Len(recessions) :
                         recessions[j][1] <= hi /\ recessions[j][2] >= lo}}

\* The ax.axvspan(start_date, end_date) calls of plot_spread_history: one
\* per period that passes the test against df.index.min() and
\* df.index.max(); on an empty index both are NaT and every test is false.
recession_spans(df) ==
    IF Index(df) = {} THEN {}
    ELSE {recessions[i] :
            i \in {j \in 1..Len(recessions) :
                     /\ recessions[j][1] >= Min(Index(df))
                     /\ recessions[j][2] <= Max(Index(df))}}

\* The chart plot_spread_history saves: its shaded bands.
plot_spread_history(df, spread_col) ==
    [tag |-> "png", spans |-> recession_spans(df)]
NoExc == "none"

\* ---------------------------------------------------------- data source
\* web.DataReader either raises (network error, unknown identifier) or
\* returns a frame, which may hold no observation at all.
Error == [tag |-> "error"]
Replies(series) ==
    {Error} \cup {ReaderFrame(series, obs) : obs \in SeriesOn(SourceDays)}
\* One entry of the request log: the series asked for and what came back.
Sent(series, reply) == [series |-> series, reply |-> reply]
Ok(request) == request.reply # Error

\* Mutant of download_pmms_data: the HAS_DATAREADER test left out.
download_pmms_data_unguarded(has_reader, reply) ==
    IF reply = Error THEN None ELSE SetColumns(reply, <<"PMMS_30Y">>)

\* The body of download_pmms_data() for the reply of the data source.
download_pmms_data(has_reader, reply) ==
    IF has_reader
    THEN IF reply = Error THEN None ELSE SetColumns(reply, <<"PMMS_30Y">>)
    ELSE None

download_treasury_10y_data(has_reader, reply) ==
    IF has_reader
    THEN IF reply = Error THEN None ELSE SetColumns(reply, <<"Treasury_10Y">>)
    ELSE None

\* Mutant of cc30_proxy: the copy of PMMS renamed, the offset not applied.
cc30_proxy_no_offset(pmms) ==
    IF pmms # None THEN SetColumns(pmms, <<"CC30">>) ELSE None

\* Mutant of cc30_proxy: the offset added, PMMS plus 0.50.
cc30_proxy_added(pmms) ==
    IF pmms # None
    THEN [tag |-> "df", cols |-> <<"CC30">>,
          rows |-> [d \in Index(pmms) |->
                     ("CC30" :> Sub(pmms.rows[d]["PMMS_30Y"], <<-PROXY_OFFSET>>))]]
    ELSE None

\* cc30_proxy of download_fannie_mae_cc30_data(): PMMS minus 0.50.
cc30_proxy(pmms) ==
    IF pmms # None
    THEN [tag |-> "df", cols |-> <<"CC30">>,
          rows |-> [d \in Index(pmms) |->
                     ("CC30" :> Sub(pmms.rows[d]["PMMS_30Y"], <<PROXY_OFFSET>>))]]
    ELSE None

\* ------------------------------------------------------------ regression
\* Mutant of df_clean: dropna(subset=[x_col]), a row missing only its y
\* value kept.
df_clean_x_only(df, x_col, y_col) ==
    [tag |-> "df", cols |-> <<x_col, y_col>>,
     rows |-> [d \in {e \in Index(df) : df.rows[e][x_col] # NaN} |->
                (x_col :> df.rows[d][x_col]) @@ (y_col :> df.rows[d][y_col])]]

\* df[[x_col, y_col]].dropna()
df_clean(df, x_col, y_col) ==
    DropNa([tag |-> "df", cols |-> <<x_col, y_col>>,
            rows |-> [d \in Index(df) |->
                       (x_col :> df.rows[d][x_col]) @@ (y_col :> df.rows[d][y_col])]])

\* Exact fractions <<numerator, denominator>> in lowest terms, the
\* denominator positive: the numbers the fits report.  A division by zero
\* gives NaN.
RECURSIVE GCD(_, _)
GCD(a, b) == IF b = 0 THEN a ELSE GCD(b, a % b)
Abs(a) == IF a < 0 THEN -a ELSE a
Frac(n, d) ==
    LET g == GCD(Abs(n), Abs(d))
    IN  IF d = 0 THEN NaN
        ELSE IF d > 0 THEN <<n \div g, d \div g>>
        ELSE <<(-n) \div g, (-d) \div g>>
\* The sum of the function f over the set S.
RECURSIVE Sum(_, _)
Sum(f, S) ==
    IF S = {} THEN 0
    ELSE LET d == CHOOSE e \in S : TRUE IN f[d] + Sum(f, S \ {d})

\* lr = LinearRegression(); lr.fit(X, y); lr.predict(X); r2_score;
\* mean_squared_error.  The fit centres X and y on their means and solves
\* the least-squares problem on the deviations (the minimum-norm solution,
\* slope 0, when every x is the same); the intercept is mean(y) minus the
\* slope times mean(x).  dx and dy are n times the deviations, p / q the
\* slope in lowest terms, R n * q times the residuals;
\* R2 = 1 - SS_res / SS_tot and mse is the mean squared residual, the
\* square of the RMSE.
linear_regression(X, y) ==
    LET idx == DOMAIN X
        n == Cardinality(idx)
        Sx == Sum(X, idx)
        Sy == Sum(y, idx)
        dx == [d \in idx |-> n * X[d] - Sx]
        dy == [d \in idx |-> n * y[d] - Sy]
        Sxx == Sum([d \in idx |-> dx[d] * dx[d]], idx)
        Sxy == Sum([d \in idx |-> dx[d] * dy[d]], idx)
        Syy == Sum([d \in idx |-> dy[d] * dy[d]], idx)
        slope == IF Sxx = 0 THEN Frac(0, 1) ELSE Frac(Sxy, Sxx)
        p == slope[1]
        q == slope[2]
        R == [d \in idx |-> q * dy[d] - p * dx[d]]
        ssR == Sum([d \in idx |-> R[d] * R[d]], idx)
    IN  [intercept |-> Frac(q * Sy - p * Sx, n * q),
         coefficient |-> slope,
         predictions |-> [d \in idx |-> Frac(n * q * y[d] - R[d], n * q)],
         r2 |-> IF n < 2 THEN NaN
                ELSE IF Syy = 0 THEN (IF ssR = 0 THEN Frac(1, 1) ELSE Frac(0, 1))
                ELSE Frac(q * q * Syy - ssR, q * q * Syy),
         mse |-> Frac(ssR, n * n * n * q * q)]

\* LinearRegression().fit(X, y) raises ValueError on zero samples and on a
\* sample that holds NaN.
FitRaises(df, x_col, y_col) ==
    LET sample == df_clean(df, x_col, y_col)
    IN  \/ NumRows(sample) = 0
        \/ \E d \in Index(sample) : \E c \in {x_col, y_col} :
              sample.rows[d][c] = NaN

\* The results dictionary: the three models, each fitted on X and y, the
\* two columns of df_clean (the polynomial fits kept as their training data).
regression_fits(df, x_col, y_col) ==
    LET sample == df_clean(df, x_col, y_col)
        X == [d \in Index(sample) |-> sample.rows[d][x_col][1]]
        y == [d \in Index(sample) |-> sample.rows[d][y_col][1]]
    IN  [tag |-> "results", models |-> <<"linear", "poly2", "poly3">>,
         sample |-> sample,
         linear |-> linear_regression(X, y),
         poly2 |-> [degree |-> 2, X |-> X, y |-> y],
         poly3 |-> [degree |-> 3, X |-> X, y |-> y]]

\* The result of run_regression_analysis: None without scikit-learn, else
\* the three models fitted on the clean rows.
run_regression_analysis(has_sklearn, df, x_col, y_col) ==
    IF ~has_sklearn THEN None ELSE regression_fits(df, x_col, y_col)

\* -------------------------------------------------------------- main()
Init ==
    /\ HAS_DATAREADER \in BOOLEAN
    /\ HAS_SKLEARN \in BOOLEAN
    /\ pc = "download_pmms"
    /\ cand = 0
    /\ pmms_data = Unbound /\ treasury_data = Unbound /\ cc30_data = Unbound
    /\ pmms_weekly = Unbound /\ treasury_weekly = Unbound
    /\ cc30_weekly = Unbound
    /\ spread_df = Unbound /\ pss30_df = Unbound
    /\ regression_results = Unbound
    /\ files = [f \in FileNames |-> NoFile]
    /\ requests = <<>>
    /\ exc = NoExc

\* pmms_data = download_pmms_data()
MainDownloadPmms ==
    /\ pc = "download_pmms"
    /\ \E reply \in Replies("MORTGAGE30US") :
         /\ pmms_data' = download_pmms_data(HAS_DATAREADER, reply)
         /\ requests' = IF HAS_DATAREADER
                        THEN Append(requests, Sent("MORTGAGE30US", reply))
                        ELSE requests
    /\ pc' = "download_treasury"
    /\ UNCHANGED <<HAS_DATAREADER, HAS_SKLEARN, cand, treasury_data, cc30_data,
                   pmms_weekly, treasury_weekly, cc30_weekly, spread_df,
                   pss30_df, regression_results, files, exc>>

\* treasury_data = download_treasury_10y_data(), then the test of Problem 4
MainDownloadTreasury ==
    /\ pc = "download_treasury"
    /\ \E reply \in Replies("DGS10") :
         /\ treasury_data' = download_treasury_10y_data(HAS_DATAREADER, reply)
         /\ requests' = IF HAS_DATAREADER
                        THEN Append(requests, Sent("DGS10", reply))
                        ELSE requests
    /\ pc' = IF pmms_data # None /\ treasury_data' # None
             THEN "p4_align_pmms" ELSE "download_cc30"
    /\ UNCHANGED <<HAS_DATAREADER, HAS_SKLEARN, cand, pmms_data, cc30_data,
                   pmms_weekly, treasury_weekly, cc30_weekly, spread_df,
                   pss30_df, regression_results, files, exc>>

P4AlignPmms ==
    /\ pc = "p4_align_pmms"
    /\ pmms_weekly' = align_to_weekly_wednesday(pmms_data, "PMMS_30Y")
    /\ pc' = "p4_align_treasury"
    /\ UNCHANGED <<HAS_DATAREADER, HAS_SKLEARN, cand, pmms_data, treasury_data,
                   cc30_data, treasury_weekly, cc30_weekly, spread_df,
                   pss30_df, regression_results, files, requests, exc>>

P4AlignTreasury ==
    /\ pc = "p4_align_treasury"
    /\ treasury_weekly' = align_to_weekly_wednesday(treasury_data, "Treasury_10Y")
    /\ pc' = "p4_spread"
    /\ UNCHANGED <<HAS_DATAREADER, HAS_SKLEARN, cand, pmms_data, treasury_data,
                   cc30_data, pmms_weekly, cc30_weekly, spread_df,
                   pss30_df, regression_results, files, requests, exc>>

P4Spread ==
    /\ pc = "p4_spread"
    /\ spread_df' = calculate_spread(pmms_weekly, treasury_weekly, "PMMS_30Y",
                                     "Treasury_10Y", "PMMS_Treasury_Spread")
    /\ pc' = "p4_save_csv"
    /\ UNCHANGED <<HAS_DATAREADER, HAS_SKLEARN, cand, pmms_data, treasury_data,
                   cc30_data, pmms_weekly, treasury_weekly, cc30_weekly,
                   pss30_df, regression_results, files, requests, exc>>

\* spread_df.to_csv("pmms_treasury_spread.csv")
P4SaveCsv ==
    /\ pc = "p4_save_csv"
    /\ files' = [files EXCEPT !["pmms_treasury_spread.csv"] = spread_df]
    /\ pc' = "p4_plot_spread"
    /\ UNCHANGED <<HAS_DATAREADER, HAS_SKLEARN, cand, locals, requests, exc>>

P4PlotSpread ==
    /\ pc = "p4_plot_spread"
    /\ files' = [files EXCEPT !["pmms_treasury_spread_chart.png"] =
                    plot_spread_history(spread_df, "PMMS_Treasury_Spread")]
    /\ pc' = "p4_plot_rates"
    /\ UNCHANGED <<HAS_DATAREADER, HAS_SKLEARN, cand, locals, requests, exc>>

P4PlotRates ==
    /\ pc = "p4_plot_rates"
    /\ files' = [files EXCEPT !["rates_comparison.png"] = Png]
    /\ pc' = "download_cc30"
    /\ UNCHANGED <<HAS_DATAREADER, HAS_SKLEARN, cand, locals, requests, exc>>

\* The test of Problem 5, taken when download_fannie_mae_cc30_data returns.
AfterCc30(pmms, cc30) ==
    IF pmms # None /\ cc30 # None THEN "p5_align_cc30" ELSE "conclusions"

\* cc30_data = download_fannie_mae_cc30_data(): entry
Cc30Enter ==
    /\ pc = "download_cc30"
    /\ IF HAS_DATAREADER
       THEN /\ cand' = 1
            /\ pc' = "cc30_loop"
            /\ UNCHANGED cc30_data
       ELSE /\ cc30_data' = None
            /\ pc' = AfterCc30(pmms_data, None)
            /\ UNCHANGED cand
    /\ UNCHANGED <<HAS_DATAREADER, HAS_SKLEARN, pmms_data, treasury_data,
                   pmms_weekly, treasury_weekly, cc30_weekly, spread_df,
                   pss30_df, regression_results, files, requests, exc>>

\* for series in possible_series: one pass of the loop
Cc30Try ==
    /\ pc = "cc30_loop"
    /\ cand \in 1..Len(possible_series)
    /\ \E reply \in Replies(possible_series[cand]) :
         /\ requests' = Append(requests, Sent(possible_series[cand], reply))
         /\ IF reply # Error
            THEN /\ cc30_data' = SetColumns(reply, <<"CC30">>)
                 /\ pc' = AfterCc30(pmms_data, cc30_data')
                 /\ cand' = 0
            ELSE /\ UNCHANGED cc30_data
                 /\ cand' = cand + 1
                 /\ pc' = IF cand < Len(possible_series)
                          THEN "cc30_loop" ELSE "cc30_proxy"
    /\ UNCHANGED <<HAS_DATAREADER, HAS_SKLEARN, pmms_data, treasury_data,
                   pmms_weekly, treasury_weekly, cc30_weekly, spread_df,
                   pss30_df, regression_results, files, exc>>

\* the proxy: pmms = download_pmms_data(); cc30_proxy = pmms - 0.50
Cc30Proxy ==
    /\ pc = "cc30_proxy"
    /\ \E reply \in Replies("MORTGAGE30US") :
         /\ requests' = Append(requests, Sent("MORTGAGE30US", reply))
         /\ cc30_data' = cc30_proxy(download_pmms_data(HAS_DATAREADER, reply))
    /\ pc' = AfterCc30(pmms_data, cc30_data')
    /\ cand' = 0
    /\ UNCHANGED <<HAS_DATAREADER, HAS_SKLEARN, pmms_data, treasury_data,
                   pmms_weekly, treasury_weekly, cc30_weekly, spread_df,
                   pss30_df, regression_results, files, exc>>

P5AlignCc30 ==
    /\ pc = "p5_align_cc30"
    /\ cc30_weekly' = align_to_weekly_wednesday(cc30_data, "CC30")
    /\ pc' = "p5_spread"
    /\ UNCHANGED <<HAS_DATAREADER, HAS_SKLEARN, cand, pmms_data, treasury_data,
                   cc30_data, pmms_weekly, treasury_weekly, spread_df,
                   pss30_df, regression_results, files, requests, exc>>

\* pss30_df = calculate_spread(pmms_weekly, cc30_weekly, ...): pmms_weekly
\* is assigned only inside the Problem 4 block.
P5Spread ==
    /\ pc = "p5_spread"
    /\ IF pmms_weekly = Unbound
       THEN /\ exc' = "UnboundLocalError"
            /\ pc' = "aborted"
            /\ UNCHANGED pss30_df
       ELSE /\ pss30_df' = calculate_spread(pmms_weekly, cc30_weekly,
                                            "PMMS_30Y", "CC30", "PSS30")
            /\ pc' = "p5_save_csv"
            /\ UNCHANGED exc
    /\ UNCHANGED <<HAS_DATAREADER, HAS_SKLEARN, cand, pmms_data, treasury_data,
                   cc30_data, pmms_weekly, treasury_weekly, cc30_weekly,
                   spread_df, regression_results, files, requests>>

P5SaveCsv ==
    /\ pc = "p5_save_csv"
    /\ files' = [files EXCEPT !["primary_secondary_spread.csv"] = pss30_df]
    /\ pc' = "p5_plot_spread"
    /\ UNCHANGED <<HAS_DATAREADER, HAS_SKLEARN, cand, locals, requests, exc>>

\* Mutant of P5PlotSpread: the chart saved under the name of the CSV export.
P5PlotSpread_over_csv ==
    /\ pc = "p5_plot_spread"
    /\ files' = [files EXCEPT !["primary_secondary_spread.csv"] =
                    plot_spread_history(pss30_df, "PSS30")]
    /\ pc' = "p5_regression"
    /\ UNCHANGED <<HAS_DATAREADER, HAS_SKLEARN, cand, locals, requests, exc>>

P5PlotSpread ==
    /\ pc = "p5_plot_spread"
    /\ files' = [files EXCEPT !["primary_secondary_spread_chart.png"] =
                    plot_spread_history(pss30_df, "PSS30")]
    /\ pc' = "p5_regression"
    /\ UNCHANGED <<HAS_DATAREADER, HAS_SKLEARN, cand, locals, requests, exc>>

\* regression_results = run_regression_analysis(pss30_df, "CC30", "PSS30")
P5Regression ==
    /\ pc = "p5_regression"
    /\ IF HAS_SKLEARN /\ FitRaises(pss30_df, "CC30", "PSS30")
       THEN /\ exc' = "ValueError"
            /\ pc' = "aborted"
            /\ UNCHANGED <<regression_results, files>>
       ELSE /\ regression_results' =
                 run_regression_analysis(HAS_SKLEARN, pss30_df, "CC30", "PSS30")
            /\ files' = IF regression_results' # None
                        THEN [files EXCEPT !["regression_analysis.png"] = Png]
                        ELSE files
            /\ pc' = "conclusions"
            /\ UNCHANGED exc
    /\ UNCHANGED <<HAS_DATAREADER, HAS_SKLEARN, cand, pmms_data, treasury_data,
                   cc30_data, pmms_weekly, treasury_weekly, cc30_weekly,
                   spread_df, pss30_df, requests>>

\* print_conclusions() and the "ANALYSIS COMPLETE" banner
MainComplete ==
    /\ pc = "conclusions"
    /\ pc' = "done"
    /\ UNCHANGED <<HAS_DATAREADER, HAS_SKLEARN, cand, locals, files, requests,
                   exc>>

Next ==
    \/ MainDownloadPmms
    \/ MainDownloadTreasury
    \/ P4AlignPmms
    \/ P4AlignTreasury
    \/ P4Spread
    \/ P4SaveCsv
    \/ P4PlotSpread
    \/ P4PlotRates
    \/ Cc30Enter
    \/ Cc30Try
    \/ Cc30Proxy
    \/ P5AlignCc30
    \/ P5Spread
    \/ P5SaveCsv
    \/ P5PlotSpread
    \/ P5Regression
    \/ MainComplete

Spec == Init /\ [][Next]_vars

\* ------------------------------------------- Problem 4 on rich input series
\* main() right after both downloads succeeded, for every pair of series
\* over Days that holds at most MaxObs observations together.
InitFetched ==
    /\ HAS_DATAREADER = TRUE
    /\ HAS_SKLEARN = TRUE
    /\ pc = "p4_align_pmms"
    /\ cand = 0
    /\ \E a \in SeriesUpTo("MORTGAGE30US", MaxObs) :
         \E b \in SeriesUpTo("DGS10", MaxObs - Cardinality(DOMAIN a)) :
           /\ pmms_data = download_pmms_data(TRUE, ReaderFrame("MORTGAGE30US", a))
           /\ treasury_data =
                download_treasury_10y_data(TRUE, ReaderFrame("DGS10", b))
           /\ requests = <<Sent("MORTGAGE30US", ReaderFrame("MORTGAGE30US", a)),
                           Sent("DGS10", ReaderFrame("DGS10", b))>>
    /\ cc30_data = Unbound
    /\ pmms_weekly = Unbound /\ treasury_weekly = Unbound
    /\ cc30_weekly = Unbound
    /\ spread_df = Unbound /\ pss30_df = Unbound
    /\ regression_results = Unbound
    /\ files = [f \in FileNames |-> NoFile]
    /\ exc = NoExc

NextProblem4 ==
    \/ P4AlignPmms
    \/ P4AlignTreasury
    \/ P4Spread
    \/ P4SaveCsv

SpecProblem4 == InitFetched /\ [][NextProblem4]_vars

\* ------------------------------------- Problem 4 around the stress periods
\* The days within ChartMargin days of the first or last day of a period.
ChartDays ==
    {d \in 0..(recessions[Len(recessions)][2] + ChartMargin) :
       \E i \in 1..Len(recessions) : \E k \in 1..2 :
          /\ recessions[i][k] - ChartMargin <= d
          /\ d <= recessions[i][k] + ChartMargin}

\* main() right after both downloads succeeded, both series observed on the
\* same first and last day (the date range of a chart is set by these two),
\* or both empty.
InitChart ==
    /\ HAS_DATAREADER = TRUE
    /\ HAS_SKLEARN = TRUE
    /\ pc = "p4_align_pmms"
    /\ cand = 0
    /\ \E S \in {{}} \cup {{lo, hi} : lo \in ChartDays, hi \in ChartDays} :
         LET a == [d \in S |-> <<Quote("MORTGAGE30US", d)>>]
             b == [d \in S |-> <<Quote("DGS10", d)>>]
         IN  /\ pmms_data =
                  download_pmms_data(TRUE, ReaderFrame("MORTGAGE30US", a))
             /\ treasury_data =
                  download_treasury_10y_data(TRUE, ReaderFrame("DGS10", b))
             /\ requests = <<Sent("MORTGAGE30US", ReaderFrame("MORTGAGE30US", a)),
                             Sent("DGS10", ReaderFrame("DGS10", b))>>
    /\ cc30_data = Unbound
    /\ pmms_weekly = Unbound /\ treasury_weekly = Unbound
    /\ cc30_weekly = Unbound
    /\ spread_df = Unbound /\ pss30_df = Unbound
    /\ regression_results = Unbound
    /\ files = [f \in FileNames |-> NoFile]
    /\ exc = NoExc

NextChart ==
    \/ P4AlignPmms
    \/ P4AlignTreasury
    \/ P4Spread
    \/ P4SaveCsv
    \/ P4PlotSpread

SpecChart == InitChart /\ [][NextChart]_vars

\* ------------------------------------------- the regression on any sample
\* The Wednesdays that label the weeks of Days.
RegressionDays == {WeekLabel(d) : d \in Days}
\* The cells of the regression inputs: missing, or a small number.
XCells == {NaN} \cup {<<v>> : v \in 0..MaxX}
YCells == {NaN} \cup {<<v>> : v \in 0..(2 * MaxX + 1)}

\* main() about to call run_regression_analysis(pss30_df, "CC30", "PSS30"),
\* pss30_df any frame of weekly rows whose CC30 and PSS30 cells are numbers
\* or missing.
InitRegression ==
    /\ HAS_DATAREADER = TRUE
    /\ HAS_SKLEARN \in BOOLEAN
    /\ pc = "p5_regression"
    /\ cand = 0
    /\ \E S \in SUBSET RegressionDays :
         \E xs \in [S -> XCells] : \E ys \in [S -> YCells] :
            pss30_df =
              [tag |-> "df", cols |-> <<"PMMS_30Y", "CC30", "PSS30">>,
               rows |-> [d \in S |->
                          ("PMMS_30Y" :> <<Quote("MORTGAGE30US", d)>>) @@
                          ("CC30" :> xs[d]) @@ ("PSS30" :> ys[d])]]
    /\ pmms_data = Unbound /\ treasury_data = Unbound /\ cc30_data = Unbound
    /\ pmms_weekly = Unbound /\ treasury_weekly = Unbound
    /\ cc30_weekly = Unbound
    /\ spread_df = Unbound
    /\ regression_results = Unbound
    /\ files = [f \in FileNames |-> NoFile]
    /\ requests = <<>>
    /\ exc = NoExc

NextRegression ==
    \/ P5Regression
    \/ MainComplete

SpecRegression == InitRegression /\ [][NextRegression]_vars

\* ================================================================ claims
\* 2000-01-05 (day 4) is a Wednesday, and so is every seventh day after it.
IsWednesday(w) == w % 7 = 4
\* Every date a weekly frame over Days can be labelled with.
WeekEnds == {w \in 0..(MaxDay + 6) : IsWednesday(w)}
\* The dates of the week ending on w (Thursday..Wednesday) on which the
\* frame holds a non-missing value in column col.
ObservedIn(df, col, w) ==
    {d \in Index(df) : w - 6 <= d /\ d <= w /\ df.rows[d][col] # NaN}

AlignedRows(input, weekly, col) ==
    \A w \in Index(weekly) :
        /\ IsWednesday(w)
        /\ ObservedIn(input, col, w) # {}
        /\ weekly.rows[w][col] = input.rows[Max(ObservedIn(input, col, w))][col]

\* C1: the rows align_to_weekly_wednesday returns are all dated on a
\* Wednesday, and the value of each row is the last non-missing observation
\* of the input in the Thursday..Wednesday week that ends on the row's date.
\* (The index of a frame is a set of dates read in date order, so the rows
\* are strictly increasing by construction.)
C1_AlignLastOfWeek ==
    /\ IsFrame(pmms_weekly) =>
         AlignedRows(pmms_data, pmms_weekly, "PMMS_30Y")
    /\ IsFrame(treasury_weekly) =>
         AlignedRows(treasury_data, treasury_weekly, "Treasury_10Y")

\* C1 witness: a week of the PMMS input holds two values and then a missing
\* one, and the aligned frame has a row for that week.
C1_Witness ==
    /\ IsFrame(pmms_weekly)
    /\ \E w \in Index(pmms_weekly) :
         \E d1, d2, d3 \in Index(pmms_data) :
            /\ w - 6 <= d1 /\ d1 < d2 /\ d2 < d3 /\ d3 <= w
            /\ pmms_data.rows[d1]["PMMS_30Y"] # NaN
            /\ pmms_data.rows[d2]["PMMS_30Y"] # NaN
            /\ pmms_data.rows[d3]["PMMS_30Y"] = NaN

OneRowPerObservedWeek(input, weekly, col) ==
    Index(weekly) = {w \in WeekEnds : ObservedIn(input, col, w) # {}}

\* C9: the aligned frame has a row for exactly the Wednesday-ending weeks in
\* which the input holds at least one non-missing observation; a week
\* without one has no row, also between the first and the last observation.
C9_EmptyWeeksDropped ==
    /\ IsFrame(pmms_weekly) =>
         OneRowPerObservedWeek(pmms_data, pmms_weekly, "PMMS_30Y")
    /\ IsFrame(treasury_weekly) =>
         OneRowPerObservedWeek(treasury_data, treasury_weekly, "Treasury_10Y")

\* C9 witness: the treasury input has values in the weeks ending on day 4
\* and day 18 and only a missing value in the week between them, and the
\* aligned frame has rows for day 4 and day 18 alone.
C9_Witness ==
    /\ IsFrame(treasury_weekly)
    /\ Index(treasury_weekly) = {4, 18}
    /\ \E d \in Index(treasury_data) :
         5 <= d /\ d <= 11 /\ treasury_data.rows[d]["Treasury_10Y"] = NaN

\* C2: calculate_spread returns one row for every date present in both
\* inputs and none for any other date, the spread of each row being
\* (seriesA - seriesB) * 100; so the output is no longer than either input
\* and its dates are dates of both inputs.
C2_SpreadOnCommonDates ==
    IsFrame(spread_df) =>
      /\ Index(spread_df) = Index(pmms_weekly) \cap Index(treasury_weekly)
      /\ \A t \in Index(spread_df) :
           /\ spread_df.rows[t]["PMMS_30Y"] = pmms_weekly.rows[t]["PMMS_30Y"]
           /\ spread_df.rows[t]["Treasury_10Y"] =
                treasury_weekly.rows[t]["Treasury_10Y"]
           /\ spread_df.rows[t]["PMMS_Treasury_Spread"] =
                <<100 * (pmms_weekly.rows[t]["PMMS_30Y"][1]
                         - treasury_weekly.rows[t]["Treasury_10Y"][1])>>
      /\ NumRows(spread_df) <= NumRows(pmms_weekly)
      /\ NumRows(spread_df) <= NumRows(treasury_weekly)
      /\ Index(spread_df) \subseteq Index(pmms_weekly)
      /\ Index(spread_df) \subseteq Index(treasury_weekly)

\* C2 witness: the two inputs share a date, and the first input also has a
\* date the second lacks.
C2_Witness ==
    /\ IsFrame(spread_df)
    /\ Index(spread_df) # {}
    /\ Index(pmms_weekly) \ Index(treasury_weekly) # {}

\* The Wednesdays on which both raw inputs have an observed week.
CommonWeeks ==
    {w \in WeekEnds : /\ ObservedIn(pmms_data, "PMMS_30Y", w) # {}
                      /\ ObservedIn(treasury_data, "Treasury_10Y", w) # {}}
LastOf(df, col, w) == df.rows[Max(ObservedIn(df, col, w))][col][1]

Finished == pc \in {"done", "aborted"}
IsCandidate(request) ==
    \E i \in 1..Len(possible_series) : request.series = possible_series[i]
\* The requests download_fannie_mae_cc30_data sent for its candidates.
CandidateRequests == SelectSeq(requests, IsCandidate)
Cc30Fetched == \E i \in 1..Len(CandidateRequests) : Ok(CandidateRequests[i])
\* The positions of the request log at which a series was asked for.
RequestsFor(series) == {i \in 1..Len(requests) : requests[i].series = series}
\* The PMMS request made by the proxy fallback (main's own is the first).
FallbackRequests == {i \in RequestsFor("MORTGAGE30US") : i > 1}

\* Every reply the data source gave held at least one non-missing value.
NoEmptyReply ==
    \A i \in 1..Len(requests) :
        Ok(requests[i]) =>
          \E d \in Index(requests[i].reply) :
             requests[i].reply.rows[d][requests[i].series] # NaN

\* C3 (as claimed): when the treasury fetch fails and the PMMS and CC30
\* fetches succeed (each with observations), main() ends with the PMMS-vs-treasury block skipped and
\* the PMMS-vs-CC30 block done: both series aligned, PSS30 computed and
\* primary_secondary_spread.csv written.
C3_TreasuryFailureIsLocal ==
    (/\ Finished
     /\ IsFrame(pmms_data) /\ treasury_data = None
     /\ Cc30Fetched /\ IsFrame(cc30_data)
     /\ NoEmptyReply)
    => /\ spread_df = Unbound
       /\ files["pmms_treasury_spread.csv"] = NoFile
       /\ IsFrame(cc30_weekly)
       /\ IsFrame(pss30_df)
       /\ files["primary_secondary_spread.csv"] = pss30_df

\* C4 (as claimed): whatever fetches fail, a failed fetch leaves None, the
\* blocks that need a failed series are skipped, nothing is computed from a
\* missing series, and main() ends at "ANALYSIS COMPLETE" without an
\* uncaught exception. (Stated for the runs in which every successful
\* reply holds observations.)
C4_FailuresNeverEscape ==
  NoEmptyReply =>
    /\ \A i \in RequestsFor("MORTGAGE30US") :
         (i = 1 /\ ~Ok(requests[i])) => pmms_data = None
    /\ \A i \in RequestsFor("DGS10") :
         (~Ok(requests[i]) /\ treasury_data # Unbound) => treasury_data = None
    /\ (pmms_data = None \/ treasury_data = None) =>
         /\ spread_df = Unbound
         /\ files["pmms_treasury_spread.csv"] = NoFile
    /\ (pmms_data = None \/ cc30_data = None) =>
         /\ pss30_df = Unbound
         /\ files["primary_secondary_spread.csv"] = NoFile
         /\ regression_results = Unbound
    /\ IsFrame(pmms_weekly) => IsFrame(pmms_data)
    /\ IsFrame(treasury_weekly) => IsFrame(treasury_data)
    /\ IsFrame(cc30_weekly) => IsFrame(cc30_data)
    /\ exc = NoExc
    /\ pc # "aborted"

\* C5: the CC30 candidates are requested in their listed order, the first
\* one fetched successfully is returned and ends the loop; the PMMS request
\* of the proxy is made only after every candidate request failed, and when
\* it succeeds the returned series has exactly its dates, each value 0.50
\* below the PMMS value (a missing value staying missing).
C5_ProxyFallback ==
    /\ \A i \in 1..Len(CandidateRequests) :
         /\ i <= Len(possible_series)
         /\ CandidateRequests[i].series = possible_series[i]
         /\ Ok(CandidateRequests[i]) =>
              /\ i = Len(CandidateRequests)
              /\ FallbackRequests = {}
              /\ cc30_data.cols = <<"CC30">>
              /\ Index(cc30_data) = Index(CandidateRequests[i].reply)
              /\ \A d \in Index(cc30_data) :
                   cc30_data.rows[d]["CC30"] =
                     CandidateRequests[i].reply.rows[d][possible_series[i]]
    /\ \A i \in FallbackRequests :
         /\ Len(CandidateRequests) = Len(possible_series)
         /\ \A j \in 1..Len(CandidateRequests) : ~Ok(CandidateRequests[j])
         /\ i = Len(requests)
         /\ IF Ok(requests[i])
            THEN /\ cc30_data.cols = <<"CC30">>
                 /\ Index(cc30_data) = Index(requests[i].reply)
                 /\ \A d \in Index(cc30_data) :
                      LET p == requests[i].reply.rows[d]["MORTGAGE30US"]
                      IN  cc30_data.rows[d]["CC30"] =
                            IF p = NaN THEN NaN ELSE <<p[1] - 50>>
            ELSE cc30_data = None

\* C5 witness: both candidates failed and the proxy was built from a PMMS
\* reply with two values.
C5_Witness ==
    /\ FallbackRequests # {}
    /\ IsFrame(cc30_data)
    /\ NumRows(cc30_data) = 2
    /\ \A d \in Index(cc30_data) : cc30_data.rows[d]["CC30"] # NaN

\* C6 (as claimed): no series identifier is requested from the data source
\* more than once in a run.
C6_NoSeriesRequestedTwice ==
    \A i, j \in 1..Len(requests) :
        i # j => requests[i].series # requests[j].series

\* C6 (amended): DGS10 and each CC30 candidate are requested at most once;
\* MORTGAGE30US is requested at most twice, by main() first and once more
\* by the proxy fallback, which asks for it after every CC30 candidate
\* failed whether main's request succeeded or failed; no run sends more
\* than Len(possible_series) + 3 requests.
C6_AtMostOneRepeat ==
    /\ \A i, j \in 1..Len(requests) :
         (i # j /\ requests[i].series = requests[j].series) =>
            /\ requests[i].series = "MORTGAGE30US"
            /\ 1 \in {i, j}
    /\ \A i \in FallbackRequests :
         /\ Len(CandidateRequests) = Len(possible_series)
         /\ \A j \in 1..Len(CandidateRequests) : ~Ok(CandidateRequests[j])
    /\ Len(requests) <= Len(possible_series) + 3

\* C6 witness: main's PMMS request failed and the fallback asked again.
C6_Witness ==
    /\ FallbackRequests # {}
    /\ ~Ok(requests[1])
    /\ pmms_data = None

\* C7 (as claimed): a download function never returns an empty series: an
\* empty reply of the data source is reported as None, and an empty reply
\* for a CC30 candidate is followed by the next candidate or by the proxy.
C7_EmptyReplyIsFailure ==
    /\ IsFrame(pmms_data) => NumRows(pmms_data) > 0
    /\ IsFrame(treasury_data) => NumRows(treasury_data) > 0
    /\ IsFrame(cc30_data) => NumRows(cc30_data) > 0
    /\ \A i \in 1..Len(CandidateRequests) :
         (Ok(CandidateRequests[i]) /\ NumRows(CandidateRequests[i].reply) = 0)
           => \/ i < Len(CandidateRequests)
              \/ FallbackRequests # {}
              \/ pc \in {"cc30_loop", "cc30_proxy"}

\* C8: without the data-reader library no request is sent, every download
\* returns None, both blocks are skipped, no file is written and main()
\* runs on to its end; without the regression library
\* run_regression_analysis returns None without raising and
\* regression_analysis.png is never written, while the CSV and the chart of
\* the block it was called from are in place.
C8_MissingDependencyDegrades ==
    /\ ~HAS_DATAREADER =>
         /\ requests = <<>>
         /\ pmms_data \in {Unbound, None}
         /\ treasury_data \in {Unbound, None}
         /\ cc30_data \in {Unbound, None}
         /\ pc \in {"download_pmms", "download_treasury", "download_cc30",
                    "conclusions", "done"}
         /\ \A f \in FileNames : files[f] = NoFile
         /\ exc = NoExc
         /\ pc # "done" => ENABLED Next
    /\ ~HAS_SKLEARN =>
         /\ files["regression_analysis.png"] = NoFile
         /\ regression_results \in {Unbound, None}
         /\ exc # "ValueError"
         /\ pc = "p5_regression" => ENABLED Next
         /\ regression_results = None =>
              /\ files["primary_secondary_spread.csv"] = pss30_df
              /\ files["primary_secondary_spread_chart.png"].tag = "png"
              /\ files["pmms_treasury_spread.csv"] = spread_df
              /\ files["pmms_treasury_spread_chart.png"].tag = "png"

\* C8 witness: without the regression library main() ran to its end on an
\* empty PSS30 frame, the CSVs and charts written.
C8_Witness ==
    /\ ~HAS_SKLEARN
    /\ pc = "done"
    /\ regression_results = None
    /\ IsFrame(pss30_df) /\ NumRows(pss30_df) = 0
    /\ files["primary_secondary_spread.csv"] = pss30_df

\* C8, the other case reached: without the data-reader library main() is at
\* its end.
C8_NoReaderDone == ~HAS_DATAREADER /\ pc = "done"

\* ------------------------------------------------ claims about the charts
\* Period p lies inside the date range of the frame, first to last day.
PeriodInside(df, p) ==
    /\ Index(df) # {}
    /\ \A d \in p[1]..p[2] : Min(Index(df)) <= d /\ d <= Max(Index(df))
\* No band of the chart touches a day of period p.
NoBandIn(chart, p) ==
    \A b \in chart.spans : b[2] < p[1] \/ b[1] > p[2]

\* C11 (as claimed): every stress period that overlaps the date range of the
\* data is shaded over the overlapping part, and a period entirely outside
\* the range is not shaded.
C11_BandsClippedToRange ==
    LET chart == files["pmms_treasury_spread_chart.png"]
    IN  (chart # NoFile /\ Index(spread_df) # {}) =>
          \A i \in 1..Len(recessions) :
             LET p == recessions[i]
                 lo == Min(Index(spread_df))
                 hi == Max(Index(spread_df))
             IN  IF p[1] <= hi /\ p[2] >= lo
                 THEN <<IF p[1] >= lo THEN p[1] ELSE lo,
                        IF p[2] <= hi THEN p[2] ELSE hi>> \in chart.spans
                 ELSE NoBandIn(chart, p)

\* C11 (amended): a stress period is shaded, over its whole length, exactly
\* when all of it lies inside the date range of the data; a period that
\* overlaps the range only in part, or lies outside it, is not shaded at
\* all, and nothing is shaded when the data is empty.
C11_BandsOnlyWhenContained ==
    LET chart == files["pmms_treasury_spread_chart.png"]
    IN  chart # NoFile =>
          \A i \in 1..Len(recessions) :
             IF PeriodInside(spread_df, recessions[i])
             THEN recessions[i] \in chart.spans
             ELSE NoBandIn(chart, recessions[i])

\* C11 witness: the data starts inside the first period and ends after the
\* second: the chart shades the second period and nothing else.
C11_Witness ==
    LET chart == files["pmms_treasury_spread_chart.png"]
    IN  /\ chart # NoFile
        /\ Index(spread_df) # {}
        /\ recessions[1][1] < Min(Index(spread_df))
        /\ Min(Index(spread_df)) < recessions[1][2]
        /\ chart.spans = {recessions[2]}

\* The rows of df with a number in both regression columns.
CompleteRows(df) ==
    {d \in Index(df) : df.rows[d]["CC30"] # NaN /\ df.rows[d]["PSS30"] # NaN}
\* The training data a model was given is exactly the complete rows of df.
FittedOn(df, X, y) ==
    /\ DOMAIN X = CompleteRows(df)
    /\ DOMAIN y = CompleteRows(df)
    /\ \A d \in CompleteRows(df) :
          /\ <<X[d]>> = df.rows[d]["CC30"]
          /\ <<y[d]>> = df.rows[d]["PSS30"]
\* Every complete row of df lies on y = 2x + 1, and two of them differ in x.
OnTheLine(df) ==
    /\ \A d \in CompleteRows(df) :
          df.rows[d]["PSS30"][1] = 2 * df.rows[d]["CC30"][1] + 1
    /\ \E d \in CompleteRows(df) : \E e \in CompleteRows(df) :
          df.rows[d]["CC30"] # df.rows[e]["CC30"]
RegressionReturned ==
    /\ HAS_SKLEARN
    /\ pc \in {"conclusions", "done"}

\* C13: run_regression_analysis drops every row with a missing value in
\* either column and fits the three models (degree 1, 2 and 3) on exactly
\* the rows that remain: the fit fails only when no row remains, and the
\* sample, the training data of both polynomial fits and the predictions of
\* the linear fit cover the complete rows and no other.  When the complete
\* rows lie on y = 2x + 1 (two of them at different x), the linear result
\* has intercept 1, coefficient 2, R2 = 1 and a mean squared error, hence
\* an RMSE, of 0.
C13_RegressionOnCleanRows ==
    /\ (pc = "aborted") => CompleteRows(pss30_df) = {}
    /\ RegressionReturned =>
         LET r == regression_results
         IN  /\ r.models = <<"linear", "poly2", "poly3">>
             /\ Index(r.sample) = CompleteRows(pss30_df)
             /\ \A d \in Index(r.sample) :
                   /\ r.sample.rows[d]["CC30"] = pss30_df.rows[d]["CC30"]
                   /\ r.sample.rows[d]["PSS30"] = pss30_df.rows[d]["PSS30"]
             /\ DOMAIN r.linear.predictions = CompleteRows(pss30_df)
             /\ r.poly2.degree = 2 /\ FittedOn(pss30_df, r.poly2.X, r.poly2.y)
             /\ r.poly3.degree = 3 /\ FittedOn(pss30_df, r.poly3.X, r.poly3.y)
             /\ OnTheLine(pss30_df) =>
                   /\ r.linear.intercept = <<1, 1>>
                   /\ r.linear.coefficient = <<2, 1>>
                   /\ r.linear.r2 = <<1, 1>>
                   /\ r.linear.mse = <<0, 1>>
                   /\ \A d \in CompleteRows(pss30_df) :
                         r.linear.predictions[d] =
                           <<pss30_df.rows[d]["PSS30"][1], 1>>

\* Reached: a sample of three rows, one of them missing its y value and
\* dropped, the two that remain on the line, fitted with intercept 1.
C13_Witness ==
    /\ RegressionReturned
    /\ NumRows(pss30_df) = 3
    /\ Cardinality(CompleteRows(pss30_df)) = 2
    /\ \E d \in Index(pss30_df) :
          pss30_df.rows[d]["CC30"] # NaN /\ pss30_df.rows[d]["PSS30"] = NaN
    /\ OnTheLine(pss30_df)
    /\ regression_results.linear.intercept = <<1, 1>>
    /\ regression_results.linear.coefficient = <<2, 1>>

\* The files each analysis block writes: its tabular export and its charts.
P4Csv == "pmms_treasury_spread.csv"
P4Charts == {"pmms_treasury_spread_chart.png", "rates_comparison.png"}
P5Csv == "primary_secondary_spread.csv"
P5Charts == {"primary_secondary_spread_chart.png", "regression_analysis.png"}
Written(f) == files[f] # NoFile
\* main() has left the Problem 4 block (it ran it or skipped it).
PastProblem4 ==
    pc \in {"download_cc30", "cc30_loop", "cc30_proxy", "p5_align_cc30",
            "p5_spread", "p5_save_csv", "p5_plot_spread", "p5_regression",
            "conclusions", "done", "aborted"}
\* What Problem 4 leaves on disk, from the two downloads alone.
Problem4Outputs ==
    IF pmms_data # None /\ treasury_data # None
    THEN LET spread == calculate_spread(
                 align_to_weekly_wednesday(pmms_data, "PMMS_30Y"),
                 align_to_weekly_wednesday(treasury_data, "Treasury_10Y"),
                 "PMMS_30Y", "Treasury_10Y", "PMMS_Treasury_Spread")
         IN  (P4Csv :> spread) @@
             ("pmms_treasury_spread_chart.png" :>
                plot_spread_history(spread, "PMMS_Treasury_Spread")) @@
             ("rates_comparison.png" :> Png)
    ELSE [f \in {P4Csv} \cup P4Charts |-> NoFile]
\* In each block a chart exists only once the block's export exists.
ExportBeforeCharts ==
    /\ (\E f \in P4Charts : Written(f)) => Written(P4Csv)
    /\ (\E f \in P5Charts : Written(f)) => Written(P5Csv)
\* Once main() has left Problem 4, its three files are what the PMMS and
\* Treasury downloads determine, whatever the CC30 fetch and the rest do.
Problem4Settled ==
    PastProblem4 =>
       \A f \in {P4Csv} \cup P4Charts : files[f] = Problem4Outputs[f]
\* A step never removes or rewrites a file that was written.
FilesKept == \A f \in FileNames : Written(f) => files'[f] = files[f]

\* C14: in each analysis block of main the tabular export is written before
\* any chart, no step removes or rewrites a file already written (so after
\* an uncaught exception every file written so far is in place with the
\* content it was written with), and the Problem 4 files are determined by
\* the PMMS and Treasury downloads alone, never by the CC30 fetch.
C14_ExportsSurviveFailure ==
    /\ [](ExportBeforeCharts /\ Problem4Settled)
    /\ [][FilesKept]_vars

\* Reached: the regression raised after both blocks had written their
\* exports and charts; all five files are still there, the Problem 4 export
\* with a row in it.
C14_Witness ==
    /\ pc = "aborted"
    /\ exc = "ValueError"
    /\ files[P4Csv] = spread_df
    /\ NumRows(spread_df) > 0
    /\ files[P5Csv] = pss30_df
    /\ \A f \in P4Charts : Written(f)
    /\ Written("primary_secondary_spread_chart.png")
    /\ ~Written("regression_analysis.png")

\* The Problem 5 block ran on the proxy: a PMMS request was made by the
\* fallback (so every candidate failed) and it brought back what the PMMS
\* request of main() had brought back.
RanOnProxy ==
    /\ IsFrame(pss30_df)
    /\ \E i \in FallbackRequests : requests[i].reply = requests[1].reply
\* df has one row per row of the weekly PMMS series, its PSS30 value 50 basis
\* points (rates are in hundredths of a percent, spreads a hundred times finer).
FiftyBpAtEveryRow(df) ==
    /\ Index(df) = Index(pmms_weekly)
    /\ \A d \in Index(df) : df.rows[d]["PSS30"] = <<50 * 100>>

\* C15: when the PMMS-vs-CC30 block runs on the proxy series (all candidates
\* failed, the fallback's PMMS reply equal to the reply main() got), the
\* PSS30 spread, as computed and as exported, has one row for every row of
\* the weekly-aligned PMMS series and is 50 basis points at every row.
C15_ProxySpreadIsFiftyBp ==
    RanOnProxy =>
       /\ FiftyBpAtEveryRow(pss30_df)
       /\ Written(P5Csv) => FiftyBpAtEveryRow(files[P5Csv])

\* Reached: the block ran on the proxy and exported a spread of two weekly
\* rows.
C15_Witness ==
    /\ RanOnProxy
    /\ Written(P5Csv)
    /\ NumRows(files[P5Csv]) = 2
    /\ NumRows(pmms_weekly) = 2

====
